---- MODULE Spec2Model ----
(***************************************************************************)
(* Purchase settlement core of dips-shop: the wallets, product_stocks,     *)
(* orders, transactions and topup_requests tables, the complete_purchase   *)
(* stored procedure and the Express handlers that write those tables.      *)
(*                                                                         *)
(* Every handler is a process.  A handler step is one database round trip  *)
(* (one `await`); the stored procedure is one database transaction whose   *)
(* steps are its blocking points (wallet row lock, SKIP LOCKED selection,  *)
(* writes + commit).                                                       *)
(***************************************************************************)
EXTENDS Integers, Sequences, FiniteSets, TLC

\* ---------------------------------------------------------------- bounds
NProcs == 2        \* requests issued during a run (all may be in flight at once)
NStock == 2        \* stock units loaded for the product
InitBalance == 2   \* balance of the wallet that exists initially

Procs == 1..NProcs
StockIds == 1..NStock
Accounts == {"a1", "a2"}
Products == {"p1"}
Quantities == {1, 2}
Amounts == {1}
ReqIds == {1}
AdminId == "admin"

\* ------------------------------------------------------------------ state
VARIABLES
    wallets,        \* wallets table: user_id -> balance (DOMAIN = existing rows)
    walletLock,     \* row lock on wallets(user_id): holder transaction or 0
    stocks,         \* product_stocks table: id -> row (DOMAIN = existing rows;
                    \* lock = the transaction holding the row lock, or 0)
    orders,         \* orders table, in commit order
    transactions,   \* transactions table, in commit order
    topups,         \* topup_requests table: request_id -> row
    procs,          \* the requests: position and locals of each handler
    nowSec,         \* last reading of the database clock, seconds (NOW())
    nowMs,          \* last reading of the server clock, milliseconds (Date.now())
    sameMs,         \* handlers whose Date.now() can still fall in millisecond nowMs
    usedVouchers,   \* truemoneyApi usedVouchers: the hashes marked used, oldest first
    redeemed,       \* provider side: the voucher hashes already paid out
    productsCache,  \* productsCache entry 'products_all': <<>> or <<stock count>>
    invalidated,    \* committed purchases whose handler has run its invalidations
    blockedIPs,     \* security.js blockedIPs
    timers,         \* pending setTimeout callbacks of blockIP: [ip, due]
    clock           \* server time seen by the timers

\* the in-memory state of the server process, outside the database
outside == <<usedVouchers, redeemed, productsCache, invalidated, blockedIPs, timers, clock>>

vars == <<wallets, walletLock, stocks, orders, transactions, topups, procs, nowSec, nowMs, sameMs,
          usedVouchers, redeemed, productsCache, invalidated, blockedIPs, timers, clock>>

tables == <<wallets, stocks, orders, transactions, topups>>

\* products table (catalog, read-only here): product_id -> price, is_active
\* the products table
Catalog == Products \cup {"p2"}
products == [p \in Catalog |-> [price |-> 1, is_active |-> TRUE]]

\* details JSONB: the order / top-up request an entry refers to, <<>> when none
NoOrder == <<>>
NoReq == <<>>

IdleProc ==
    [op |-> "none", pc |-> "idle", user |-> "none", product |-> "none",
     qty |-> 0, amt |-> 0, req |-> 0, bal |-> 0, newBal |-> 0,
     ts |-> 0, items |-> <<>>, stock |-> 0, outcome |-> "none", after |-> {},
     faults |-> {}, report |-> <<>>, raw |-> <<>>, voucher |-> "none"]

\* a request being issued now (its `after`: the requests that had already
\* completed, which is what makes it a later call than those)
NewProc == [IdleProc EXCEPT !.after = {q \in Procs : procs[q].pc = "done"}]

\* the wallets that exist before the run: a1 always has one, a2 may have none
InitWallets == {[u \in S |-> InitBalance] : S \in {{"a1"}, {"a1", "a2"}}}

\* the ledger of those wallets: each was created with balance 0 and credited
\* by one admin top-up, in earlier milliseconds
RECURSIVE InitLedger(_, _)
InitLedger(w, k) ==
    IF w = {} THEN <<>>
    ELSE LET u == CHOOSE x \in w : TRUE
         IN <<[transaction_id |-> <<"TXN", "ms", 0 - k>>, user_id |-> u,
               type |-> "topup", amount |-> InitBalance,
               balance_after |-> InitBalance,
               order_id |-> NoOrder, request_id |-> NoReq]>> \o InitLedger(w \ {u}, k + 1)

InitStocks ==
    [s \in StockIds |->
        [product_id |-> "p1", stock_data |-> s, created_at |-> s,
         is_sold |-> FALSE, sold_to |-> "none", sold_at |-> 0,
         order_id |-> NoOrder, lock |-> 0]]

\* a request sent through POST /api/wallet/topup (angpao: its slip_url is a
\* gift.truemoney.com link, as POST /api/angpao/submit stores it)
PendingRow(u, a, link) ==
    [user_id |-> u, amount |-> a, status |-> "pending", reviewed_by |-> "none",
     angpao |-> link]

InitCatalogStocks == {InitStocks, [InitStocks EXCEPT ![NStock].product_id = "p2"]}

InitTopups == [r \in ReqIds |-> PendingRow("a1", 1, FALSE)]

\* pendingRequests.length >= 3
PendingCap == 3

\* the requests a1 has pending before the run, up to the cap
InitPendingTopups == {[r \in 1..k |-> PendingRow("a1", 1, FALSE)] : k \in 1..PendingCap}

InitBase ==
    /\ wallets \in InitWallets
    /\ walletLock = [u \in Accounts |-> 0]
    /\ orders = <<>>
    /\ transactions = InitLedger(DOMAIN wallets, 1)
    /\ procs = [p \in Procs |-> IdleProc]
    /\ nowSec = 0
    /\ nowMs = 0
    /\ sameMs = {}
    /\ usedVouchers = <<>>
    /\ redeemed = {}
    /\ productsCache = <<>>
    /\ invalidated = {}
    /\ blockedIPs = {}
    /\ timers = {}
    /\ clock = 0

Init == InitBase /\ stocks = InitStocks /\ topups = InitTopups

\* the same with one to three requests of a1 pending
InitPending == InitBase /\ stocks = InitStocks /\ topups \in InitPendingTopups

\* the same with a second product in the catalog, which may own the newest unit
InitCatalog == InitBase /\ stocks \in InitCatalogStocks /\ topups = InitTopups

\* ---------------------------------------------------------------- helpers
Range(f) == {f[i] : i \in DOMAIN f}

\* a request may start once every lower-numbered request has started
\* (requests are interchangeable; this fixes their numbering)
CanStart(p) ==
    /\ procs[p].pc = "idle"
    /\ \A q \in Procs : q < p => procs[q].pc # "idle"

Finish(p, out) ==
    [procs[p] EXCEPT !.pc = "done", !.outcome = out, !.bal = 0, !.newBal = 0]

\* 'ORD' || EXTRACT(EPOCH FROM NOW())::BIGINT::TEXT
OrderIdOf(sec) == <<"ORD", sec>>
\* 'TXN' || EXTRACT(EPOCH FROM NOW())::BIGINT::TEXT   (10 digits, seconds)
SqlTxnIdOf(sec) == <<"TXN", "sec", sec>>
\* `TXN${Date.now()}`                                  (13 digits, milliseconds)
JsTxnIdOf(ms) == <<"TXN", "ms", ms>>

OrderIds == {o.order_id : o \in Range(orders)}
TxnIds == {t.transaction_id : t \in Range(transactions)}

\* ------------------------------------------------------------------ clock
\* A clock is observed only where the code reads it; 0 is the time before the
\* run.  Each request reads each clock at most once, so readings stay within
\* 1..NProcs.
\*
\* NOW() of a new transaction: the second of the previous transaction or a
\* later one.
SecReadings == {t \in {nowSec, nowSec + 1} : t >= 1}

\* Date.now() when a handler's getUserBalance resolves: a later millisecond
\* than the last reading, or the same one when this handler was already
\* awaiting getUserBalance at that reading (a round trip to the database
\* outlasts a millisecond, so a handler that began its read afterwards reads
\* a later time).
MsReadings(p) == IF p \in sameMs THEN {nowMs, nowMs + 1} ELSE {nowMs + 1}

\* ------------------------------------------- purchase: complete_purchase
\* POST /api/products/:id/purchase up to the rpc call: the transaction starts
\* and NOW() is fixed for its whole duration.
PurchaseCall(p, u, prod, q, now) ==
    /\ CanStart(p)
    /\ now \in SecReadings
    /\ nowSec' = now
    /\ q >= 1 /\ q <= 100
    /\ products[prod].is_active
    /\ procs' = [procs EXCEPT ![p] =
                    [NewProc EXCEPT !.op = "purchase", !.pc = "lockWallet",
                                     !.user = u, !.product = prod, !.qty = q,
                                     !.amt = products[prod].price * q,
                                     !.ts = now]]
    /\ UNCHANGED <<wallets, walletLock, stocks, orders, transactions, topups, nowMs, sameMs>>
    /\ UNCHANGED outside

\* (C5 mutant) the balance compared with the unit price instead of the total
InsufficientBalanceUnitPrice(balance, total) == balance < 1

\* IF v_current_balance < v_total THEN RAISE EXCEPTION 'INSUFFICIENT_BALANCE'
InsufficientBalance(balance, total) == balance < total

\* RAISE EXCEPTION 'INSUFFICIENT_BALANCE: Balance %, Required %' and the
\* handler's errorMsg.match(/Balance ([\d.]+), Required ([\d.]+)/): the
\* response carries balance = match[1], required = match[2]
BalanceReport(balance, total) == <<balance, total>>

\* (C14 mutant) the balance read without FOR UPDATE: no waiting, no row lock
PurchaseReadWalletUnlocked(p) ==
    LET me == procs[p] IN
    /\ me.pc = "lockWallet"
    /\ procs' = [procs EXCEPT ![p] =
                    IF me.user \notin DOMAIN wallets THEN Finish(p, "WalletMissing")
                    ELSE IF InsufficientBalance(wallets[me.user], me.amt)
                    THEN Finish(p, "InsufficientBalance")
                    ELSE [me EXCEPT !.pc = "reserve", !.bal = wallets[me.user]]]
    /\ UNCHANGED <<wallets, walletLock, stocks, orders, transactions, topups, nowSec, nowMs, sameMs>>
    /\ UNCHANGED outside

\* (C17 mutant) a missing wallet row created with balance 0 instead of
\* raising WALLET_NOT_FOUND
PurchaseLockWalletAutoCreate(p) ==
    LET me == procs[p] IN
    /\ me.pc = "lockWallet"
    /\ walletLock[me.user] = 0
    /\ IF me.user \notin DOMAIN wallets
       THEN /\ wallets' = wallets @@ (me.user :> 0)
            /\ procs' = [procs EXCEPT ![p] = Finish(p, "InsufficientBalance")]
            /\ UNCHANGED walletLock
       ELSE IF InsufficientBalance(wallets[me.user], me.amt)
       THEN /\ procs' = [procs EXCEPT ![p] = Finish(p, "InsufficientBalance")]
            /\ UNCHANGED <<wallets, walletLock>>
       ELSE /\ procs' = [procs EXCEPT ![p].pc = "reserve", ![p].bal = wallets[me.user]]
            /\ walletLock' = [walletLock EXCEPT ![me.user] = p]
            /\ UNCHANGED wallets
    /\ UNCHANGED <<stocks, orders, transactions, topups, nowSec, nowMs, sameMs>>
    /\ UNCHANGED outside

\* (C25 mutant) the stock counted before the balance is compared
PurchaseLockWalletStockFirst(p) ==
    LET me == procs[p]
        free == {s \in DOMAIN stocks : /\ stocks[s].product_id = me.product
                                       /\ ~stocks[s].is_sold
                                       /\ stocks[s].lock = 0}
    IN
    /\ me.pc = "lockWallet"
    /\ walletLock[me.user] = 0
    /\ IF me.user \notin DOMAIN wallets
       THEN /\ procs' = [procs EXCEPT ![p] = Finish(p, "WalletMissing")]
            /\ UNCHANGED walletLock
       ELSE IF Cardinality(free) < me.qty
       THEN /\ procs' = [procs EXCEPT ![p] = Finish(p, "InsufficientStock")]
            /\ UNCHANGED walletLock
       ELSE IF InsufficientBalance(wallets[me.user], me.amt)
       THEN /\ procs' = [procs EXCEPT ![p] =
                            [Finish(p, "InsufficientBalance") EXCEPT
                                !.report = BalanceReport(wallets[me.user], me.amt)]]
            /\ UNCHANGED walletLock
       ELSE /\ procs' = [procs EXCEPT ![p].pc = "reserve", ![p].bal = wallets[me.user]]
            /\ walletLock' = [walletLock EXCEPT ![me.user] = p]
    /\ UNCHANGED <<wallets, stocks, orders, transactions, topups, nowSec, nowMs, sameMs>>
    /\ UNCHANGED outside

\* SELECT balance ... FOR UPDATE, then the two balance checks
PurchaseLockWallet(p) ==
    LET me == procs[p] IN
    /\ me.pc = "lockWallet"
    /\ walletLock[me.user] = 0
    /\ IF me.user \notin DOMAIN wallets
       THEN /\ procs' = [procs EXCEPT ![p] = Finish(p, "WalletMissing")]
            /\ UNCHANGED walletLock
       ELSE IF InsufficientBalance(wallets[me.user], me.amt)
       THEN /\ procs' = [procs EXCEPT ![p] =
                            [Finish(p, "InsufficientBalance") EXCEPT
                                !.report = BalanceReport(wallets[me.user], me.amt)]]
            /\ UNCHANGED walletLock
       ELSE /\ procs' = [procs EXCEPT ![p].pc = "reserve", ![p].bal = wallets[me.user]]
            /\ walletLock' = [walletLock EXCEPT ![me.user] = p]
    /\ UNCHANGED <<wallets, stocks, orders, transactions, topups, nowSec, nowMs, sameMs>>
    /\ UNCHANGED outside

\* (C2 mutant) the scan without its is_sold = false condition
SelectableIgnoringSold(prod) ==
    {s \in DOMAIN stocks : stocks[s].product_id = prod /\ stocks[s].lock = 0}

\* (C15 mutant) the scan taking rows another transaction has locked
SelectableIncludingLocked(prod) ==
    {s \in DOMAIN stocks : stocks[s].product_id = prod /\ ~stocks[s].is_sold}

\* (C36 mutant) the scan without its product_id condition
SelectableAnyProduct(prod) ==
    {s \in DOMAIN stocks : ~stocks[s].is_sold /\ stocks[s].lock = 0}

\* rows the SKIP LOCKED scan can take: unsold rows of the product that no
\* other transaction has locked
Selectable(prod) ==
    {s \in DOMAIN stocks : /\ stocks[s].product_id = prod
                           /\ ~stocks[s].is_sold
                           /\ stocks[s].lock = 0}

\* ORDER BY created_at ASC LIMIT n
RECURSIVE FirstByCreatedAt(_, _)
FirstByCreatedAt(S, n) ==
    IF n = 0 \/ S = {} THEN <<>>
    ELSE LET s == CHOOSE x \in S : \A y \in S : stocks[x].created_at <= stocks[y].created_at
         IN <<s>> \o FirstByCreatedAt(S \ {s}, n - 1)

\* (C22 mutant) a reservation that waits for enough stock to appear instead
\* of raising INSUFFICIENT_STOCK
PurchaseReserveWaiting(p) ==
    LET me == procs[p]
        got == FirstByCreatedAt(Selectable(me.product), me.qty)
    IN
    /\ me.pc = "reserve"
    /\ Len(got) >= me.qty
    /\ procs' = [procs EXCEPT ![p].pc = "commit", ![p].items = got]
    /\ stocks' = [s \in DOMAIN stocks |->
                    IF s \in Range(got) THEN [stocks[s] EXCEPT !.lock = p]
                    ELSE stocks[s]]
    /\ UNCHANGED <<wallets, walletLock, orders, transactions, topups, nowSec, nowMs, sameMs>>
    /\ UNCHANGED outside

\* FOR ... SELECT ... FOR UPDATE SKIP LOCKED LOOP, then the count check
PurchaseReserve(p) ==
    LET me == procs[p]
        got == FirstByCreatedAt(Selectable(me.product), me.qty)
    IN
    /\ me.pc = "reserve"
    /\ IF Len(got) < me.qty
       THEN \* RAISE INSUFFICIENT_STOCK: the transaction rolls back
            /\ procs' = [procs EXCEPT ![p] = Finish(p, "InsufficientStock")]
            /\ walletLock' = [walletLock EXCEPT ![me.user] = 0]
            /\ UNCHANGED stocks
       ELSE /\ procs' = [procs EXCEPT ![p].pc = "commit", ![p].items = got]
            /\ stocks' = [s \in DOMAIN stocks |->
                            IF s \in Range(got) THEN [stocks[s] EXCEPT !.lock = p]
                            ELSE stocks[s]]
            /\ UNCHANGED walletLock
    /\ UNCHANGED <<wallets, orders, transactions, topups, nowSec, nowMs, sameMs>>
    /\ UNCHANGED outside

\* (C24 mutant) the payloads collected in the opposite order
DeliveryItemsReversed(items) ==
    [i \in DOMAIN items |-> stocks[items[Len(items) + 1 - i]].stock_data]

\* v_stock_data: array_append(v_stock_data, v_stock.stock_data) in loop order
DeliveryItems(items) == [i \in DOMAIN items |-> stocks[items[i]].stock_data]

\* steps 3-7 of complete_purchase and COMMIT; a unique violation on
\* orders.order_id or transactions.transaction_id rolls everything back
PurchaseCommit(p) ==
    LET me == procs[p]
        oid == OrderIdOf(me.ts)
        tid == SqlTxnIdOf(me.ts)
        newBalance == me.bal - me.amt
        unlocked == [s \in DOMAIN stocks |->
                        IF stocks[s].lock = p THEN [stocks[s] EXCEPT !.lock = 0]
                        ELSE stocks[s]]
    IN
    /\ me.pc = "commit"
    /\ walletLock' = [walletLock EXCEPT ![me.user] = 0]
    /\ IF oid \in OrderIds \/ tid \in TxnIds
       THEN /\ procs' = [procs EXCEPT ![p] = [Finish(p, "Aborted") EXCEPT !.items = <<>>]]
            /\ stocks' = unlocked
            /\ UNCHANGED <<wallets, orders, transactions>>
       ELSE /\ wallets' = [wallets EXCEPT ![me.user] = newBalance]
            /\ stocks' = [s \in DOMAIN stocks |->
                            IF s \in Range(me.items)
                            THEN [stocks[s] EXCEPT !.is_sold = TRUE, !.sold_to = me.user,
                                                   !.sold_at = me.ts, !.order_id = oid,
                                                   !.lock = 0]
                            ELSE stocks[s]]
            /\ orders' = Append(orders,
                            [order_id |-> oid, user_id |-> me.user,
                             product_id |-> me.product, quantity |-> me.qty,
                             price |-> products[me.product].price, total |-> me.amt,
                             items |-> DeliveryItems(me.items)])
            /\ transactions' = Append(transactions,
                            [transaction_id |-> tid, user_id |-> me.user,
                             type |-> "purchase", amount |-> 0 - me.amt,
                             balance_after |-> newBalance,
                             order_id |-> oid, request_id |-> NoReq])
            /\ procs' = [procs EXCEPT ![p] =
                            [Finish(p, "Committed") EXCEPT !.report = DeliveryItems(me.items)]]
    /\ UNCHANGED <<topups, nowSec, nowMs, sameMs>>
    /\ UNCHANGED outside

\* ------------------------------------------------ wallet helpers (server.js)
\* getUserBalance -> getOrCreateWallet: the row's balance; a missing row is
\* inserted with balance 0 first
BalanceRead(u) == IF u \in DOMAIN wallets THEN wallets[u] ELSE 0

WalletsAfterRead(u) == IF u \in DOMAIN wallets THEN wallets ELSE wallets @@ (u :> 0)

\* updateUserBalance: upsert on user_id
WalletsAfterUpsert(u, newBalance) ==
    IF u \in DOMAIN wallets THEN [wallets EXCEPT ![u] = newBalance]
    ELSE wallets @@ (u :> newBalance)

\* updateUserBalance(userId, newBalance).  The upsert waits for a row lock
\* held by a purchase transaction.
UpdateUserBalance(p) ==
    LET me == procs[p] IN
    /\ me.pc = "updateBalance"
    /\ walletLock[me.user] = 0
    /\ wallets' = WalletsAfterUpsert(me.user, me.newBal)
    /\ procs' = [procs EXCEPT ![p].pc = "txnRead"]
    /\ UNCHANGED <<walletLock, stocks, orders, transactions, topups, nowSec, nowMs, sameMs>>
    /\ UNCHANGED outside

\* addTransaction, first await: balanceAfter = await getUserBalance(userId);
\* when it resolves the row is built, transaction_id from Date.now()
AddTransactionRead(p, now) ==
    LET me == procs[p] IN
    /\ me.pc = "txnRead"
    /\ now \in MsReadings(p)
    /\ nowMs' = now
    /\ sameMs' = IF now = nowMs THEN sameMs \ {p}
                 ELSE {q \in Procs \ {p} : procs[q].pc = "txnRead"}
    /\ wallets' = WalletsAfterRead(me.user)
    /\ procs' = [procs EXCEPT ![p].pc = "txnInsert", ![p].bal = BalanceRead(me.user),
                              ![p].ts = now]
    /\ UNCHANGED <<walletLock, stocks, orders, transactions, topups, nowSec>>
    /\ UNCHANGED outside

\* the row addTransaction inserts
TransactionRow(me) ==
    [transaction_id |-> JsTxnIdOf(me.ts), user_id |-> me.user,
     type |-> IF me.op = "deduct" THEN "purchase" ELSE "topup",
     amount |-> IF me.op = "deduct" THEN 0 - me.amt ELSE me.amt,
     balance_after |-> me.bal,
     order_id |-> NoOrder,
     request_id |-> IF me.op = "approve" THEN <<me.req>> ELSE NoReq]

\* addTransaction, second await: the insert.  transaction_id is UNIQUE; an
\* insert error is caught and addTransaction returns null, the handler goes on.
AddTransactionInsert(p) ==
    LET me == procs[p]
        row == TransactionRow(me)
    IN
    /\ me.pc = "txnInsert"
    /\ transactions' = IF row.transaction_id \in TxnIds THEN transactions
                       ELSE Append(transactions, row)
    /\ procs' = [procs EXCEPT ![p] = Finish(p, "ok")]
    /\ UNCHANGED <<wallets, walletLock, stocks, orders, topups, nowSec, nowMs, sameMs>>
    /\ UNCHANGED outside

\* ------------------------------------------------ POST /api/wallet/deduct
\* if (currentBalance < amount) return 400
InsufficientFunds(currentBalance, amount) == currentBalance < amount

DeductCall(p, u, a) ==
    /\ CanStart(p)
    /\ a > 0
    /\ wallets' = WalletsAfterRead(u)
    /\ procs' = [procs EXCEPT ![p] =
                    IF InsufficientFunds(BalanceRead(u), a)
                    THEN [NewProc EXCEPT !.op = "deduct", !.pc = "done", !.user = u,
                                          !.amt = a, !.outcome = "InsufficientFunds"]
                    ELSE [NewProc EXCEPT !.op = "deduct", !.pc = "updateBalance",
                                          !.user = u, !.amt = a,
                                          !.newBal = BalanceRead(u) - a]]
    /\ UNCHANGED <<walletLock, stocks, orders, transactions, topups, nowSec, nowMs, sameMs>>
    /\ UNCHANGED outside

\* ------------------------------------------------- POST /api/admin/topup
AdminTopupCall(p, u, a) ==
    /\ CanStart(p)
    /\ a > 0
    /\ wallets' = WalletsAfterRead(u)
    /\ procs' = [procs EXCEPT ![p] =
                    [NewProc EXCEPT !.op = "adminTopup", !.pc = "updateBalance",
                                     !.user = u, !.amt = a,
                                     !.newBal = BalanceRead(u) + a]]
    /\ UNCHANGED <<walletLock, stocks, orders, transactions, topups, nowSec, nowMs, sameMs>>
    /\ UNCHANGED outside

\* -------------------------- POST /api/admin/topup-requests/:requestId/approve
\* select ... eq(request_id) eq(status, 'pending') single(), then the amount
\* (body amount when given, else the request's)
ApproveCall(p, r, bodyAmount) ==
    LET amount == IF bodyAmount # 0 THEN bodyAmount ELSE topups[r].amount IN
    /\ CanStart(p)
    /\ procs' = [procs EXCEPT ![p] =
                    IF topups[r].status # "pending"
                    THEN [NewProc EXCEPT !.op = "approve", !.pc = "done", !.req = r,
                                          !.outcome = "NotPending"]
                    ELSE IF amount <= 0
                    THEN [NewProc EXCEPT !.op = "approve", !.pc = "done", !.req = r,
                                          !.user = topups[r].user_id,
                                          !.outcome = "BadAmount"]
                    ELSE [NewProc EXCEPT !.op = "approve", !.pc = "approveUpdate",
                                          !.req = r, !.user = topups[r].user_id,
                                          !.amt = amount]]
    /\ UNCHANGED <<wallets, walletLock, stocks, orders, transactions, topups, nowSec, nowMs, sameMs>>
    /\ UNCHANGED outside

\* update({status: 'approved', amount, reviewed_by, ...}).eq('request_id', requestId)
ApproveUpdate(p) ==
    LET me == procs[p] IN
    /\ me.pc = "approveUpdate"
    /\ topups' = [topups EXCEPT ![me.req] =
                    [@ EXCEPT !.status = "approved", !.amount = me.amt,
                              !.reviewed_by = AdminId]]
    /\ procs' = [procs EXCEPT ![p].pc = "approveRead"]
    /\ UNCHANGED <<wallets, walletLock, stocks, orders, transactions, nowSec, nowMs, sameMs>>
    /\ UNCHANGED outside

\* getOrCreateWallet; currentBalance = getUserBalance; newBalance = currentBalance + amount
ApproveRead(p) ==
    LET me == procs[p] IN
    /\ me.pc = "approveRead"
    /\ wallets' = WalletsAfterRead(me.user)
    /\ procs' = [procs EXCEPT ![p].pc = "updateBalance",
                              ![p].newBal = BalanceRead(me.user) + me.amt]
    /\ UNCHANGED <<walletLock, stocks, orders, transactions, topups, nowSec, nowMs, sameMs>>
    /\ UNCHANGED outside

\* --------------------------- POST /api/admin/topup-requests/:requestId/reject
RejectCall(p, r) ==
    /\ CanStart(p)
    /\ procs' = [procs EXCEPT ![p] =
                    IF topups[r].status # "pending"
                    THEN [NewProc EXCEPT !.op = "reject", !.pc = "done", !.req = r,
                                          !.outcome = "NotPending"]
                    ELSE [NewProc EXCEPT !.op = "reject", !.pc = "rejectUpdate",
                                          !.req = r, !.user = topups[r].user_id]]
    /\ UNCHANGED <<wallets, walletLock, stocks, orders, transactions, topups, nowSec, nowMs, sameMs>>
    /\ UNCHANGED outside

RejectUpdate(p) ==
    LET me == procs[p] IN
    /\ me.pc = "rejectUpdate"
    /\ topups' = [topups EXCEPT ![me.req] =
                    [@ EXCEPT !.status = "rejected", !.reviewed_by = AdminId]]
    /\ procs' = [procs EXCEPT ![p] = Finish(p, "ok")]
    /\ UNCHANGED <<wallets, walletLock, stocks, orders, transactions, nowSec, nowMs, sameMs>>
    /\ UNCHANGED outside

\* ------------------------------- POST /api/wallet/topup/:requestId/cancel
\* (POST /api/angpao/:requestId/cancel is the same code)
CancelCall(p, r, u) ==
    /\ CanStart(p)
    /\ procs' = [procs EXCEPT ![p] =
                    IF topups[r].user_id # u \/ topups[r].status # "pending"
                    THEN [NewProc EXCEPT !.op = "cancel", !.pc = "done", !.req = r,
                                          !.user = u, !.outcome = "NotPending"]
                    ELSE [NewProc EXCEPT !.op = "cancel", !.pc = "cancelUpdate",
                                          !.req = r, !.user = u]]
    /\ UNCHANGED <<wallets, walletLock, stocks, orders, transactions, topups, nowSec, nowMs, sameMs>>
    /\ UNCHANGED outside

CancelUpdate(p) ==
    LET me == procs[p] IN
    /\ me.pc = "cancelUpdate"
    /\ topups' = [topups EXCEPT ![me.req] = [@ EXCEPT !.status = "cancelled"]]
    /\ procs' = [procs EXCEPT ![p] = Finish(p, "ok")]
    /\ UNCHANGED <<wallets, walletLock, stocks, orders, transactions, nowSec, nowMs, sameMs>>
    /\ UNCHANGED outside

\* ------------------------------------------ DELETE /api/admin/stocks/:id
\* select('*').eq('id', stockId).single(), then the is_sold check
DeleteStockCall(p, s) ==
    /\ CanStart(p)
    /\ procs' = [procs EXCEPT ![p] =
                    IF s \notin DOMAIN stocks
                    THEN [NewProc EXCEPT !.op = "deleteStock", !.pc = "done", !.stock = s,
                                          !.outcome = "NotFound"]
                    ELSE IF stocks[s].is_sold
                    THEN [NewProc EXCEPT !.op = "deleteStock", !.pc = "done", !.stock = s,
                                          !.outcome = "StockSold"]
                    ELSE [NewProc EXCEPT !.op = "deleteStock", !.pc = "deleteRow",
                                          !.stock = s, !.product = stocks[s].product_id]]
    /\ UNCHANGED <<wallets, walletLock, stocks, orders, transactions, topups, nowSec, nowMs, sameMs>>
    /\ UNCHANGED outside

\* delete().eq('id', stockId): it waits for a row lock held by a purchase
\* transaction, then deletes the row whatever its is_sold has become.  (The
\* products.stock display counter refreshed afterwards is not part of the state.)
DeleteStockRow(p) ==
    LET me == procs[p] IN
    /\ me.pc = "deleteRow"
    /\ me.stock \in DOMAIN stocks => stocks[me.stock].lock = 0
    /\ stocks' = [s \in DOMAIN stocks \ {me.stock} |-> stocks[s]]
    /\ procs' = [procs EXCEPT ![p] = Finish(p, "ok")]
    /\ UNCHANGED <<wallets, walletLock, orders, transactions, topups, nowSec, nowMs, sameMs>>
    /\ UNCHANGED outside

\* ------------------------------------------------ POST /api/wallet/topup
\* (POST /api/angpao/submit is the same code with request ids ANG...)
PendingOf(u) == {r \in DOMAIN topups : topups[r].user_id = u /\ topups[r].status = "pending"}

\* select id ... eq(user_id) eq(status, 'pending'), then the cap
SubmitTopupCall(p, u, a) ==
    /\ CanStart(p)
    /\ a > 0
    /\ procs' = [procs EXCEPT ![p] =
                    IF Cardinality(PendingOf(u)) >= PendingCap
                    THEN [NewProc EXCEPT !.op = "submit", !.pc = "done", !.user = u,
                                          !.amt = a, !.outcome = "TooManyPending"]
                    ELSE [NewProc EXCEPT !.op = "submit", !.pc = "submitInsert",
                                          !.user = u, !.amt = a]]
    /\ UNCHANGED <<wallets, walletLock, stocks, orders, transactions, topups, nowSec, nowMs, sameMs>>
    /\ UNCHANGED outside

\* insert({request_id, user_id, amount, method, slip_url, status: 'pending'});
\* the new row gets the next unused request id
SubmitTopupInsert(p) ==
    LET me == procs[p]
        r == Cardinality(DOMAIN topups) + 1
    IN
    /\ me.pc = "submitInsert"
    /\ topups' = topups @@ (r :> PendingRow(me.user, me.amt, FALSE))
    /\ procs' = [procs EXCEPT ![p] = [Finish(p, "ok") EXCEPT !.req = r]]
    /\ UNCHANGED <<wallets, walletLock, stocks, orders, transactions, nowSec, nowMs, sameMs>>
    /\ UNCHANGED outside

\* ------------------------------------------- POST /api/thunder/verify-slip
\* status TEXT ... CHECK (status IN ('pending','approved','rejected','cancelled'))
StatusValues == {"pending", "approved", "rejected", "cancelled"}

StatusAllowed(st) == st \in StatusValues

\* what server.js imports from ./config/supabase
ServerImports == {"supabaseAdmin"}

\* (C13 mutant) the update as written in the handler, sent and accepted
SlipStatusWriteUnchecked(r, u) ==
    IF topups[r].user_id = u THEN [topups EXCEPT ![r].status = "verified"] ELSE topups

\* await supabase.from('topup_requests').update({status: 'verified', ...})
\*     .eq('request_id', requestId).eq('user_id', userId):
\* `supabase` is not declared in server.js, so evaluating it throws before any
\* request is sent; and the table's CHECK refuses the value 'verified'
SlipStatusWrite(r, u) ==
    IF "supabase" \in ServerImports /\ StatusAllowed("verified")
    THEN SlipStatusWriteUnchecked(r, u)
    ELSE topups

\* the handler with a requestId in the body; slipOk is the provider's verdict
\* (thunderApi.verifySlip)
VerifySlipCall(p, r, u, slipOk) ==
    /\ CanStart(p)
    /\ r \in DOMAIN topups
    /\ topups' = IF slipOk THEN SlipStatusWrite(r, u) ELSE topups
    /\ procs' = [procs EXCEPT ![p] =
                    [NewProc EXCEPT !.op = "verifySlip", !.pc = "done", !.req = r,
                                     !.user = u,
                                     !.outcome = IF ~slipOk THEN "SlipInvalid"
                                                 ELSE IF "supabase" \in ServerImports
                                                 THEN "ok" ELSE "ServerError"]]
    /\ UNCHANGED <<wallets, walletLock, stocks, orders, transactions, nowSec, nowMs, sameMs>>
    /\ UNCHANGED outside

\* --------------------------------------------------- storage failures
\* A round trip to the database can fail (supabase returns `error`).  What each
\* caller does with the error is the code's: a handler counts at most one
\* failure here.
NoFaultYet(p) == procs[p].faults = {}

\* approve: if (updateError) throw updateError -> catch -> 500
ApproveUpdateFails(p) ==
    LET me == procs[p] IN
    /\ me.pc = "approveUpdate"
    /\ NoFaultYet(p)
    /\ procs' = [procs EXCEPT ![p] =
                    [Finish(p, "StorageError") EXCEPT !.faults = {"statusUpdate"}]]
    /\ UNCHANGED <<wallets, walletLock, stocks, orders, transactions, topups, nowSec, nowMs, sameMs>>
    /\ UNCHANGED outside

\* getOrCreateWallet fails: its catch returns {user_id, balance: 0}, so
\* getUserBalance yields 0 and newBalance = 0 + amount
ApproveReadFails(p) ==
    LET me == procs[p] IN
    /\ me.pc = "approveRead"
    /\ NoFaultYet(p)
    /\ procs' = [procs EXCEPT ![p].pc = "updateBalance", ![p].newBal = 0 + me.amt,
                              ![p].faults = {"walletRead"}]
    /\ UNCHANGED <<wallets, walletLock, stocks, orders, transactions, topups, nowSec, nowMs, sameMs>>
    /\ UNCHANGED outside

\* admin top-up: the same failure of getOrCreateWallet / getUserBalance,
\* currentBalance = 0 and newBalance = 0 + amount
AdminTopupCallFails(p, u, a) ==
    /\ CanStart(p)
    /\ a > 0
    /\ procs' = [procs EXCEPT ![p] =
                    [NewProc EXCEPT !.op = "adminTopup", !.pc = "updateBalance",
                                     !.user = u, !.amt = a, !.newBal = 0 + a,
                                     !.faults = {"walletRead"}]]
    /\ UNCHANGED <<wallets, walletLock, stocks, orders, transactions, topups, nowSec, nowMs, sameMs>>
    /\ UNCHANGED outside

\* updateUserBalance fails: its catch logs and returns newBalance, the caller
\* goes on as if the balance had been written
UpdateUserBalanceFails(p) ==
    LET me == procs[p] IN
    /\ me.pc = "updateBalance"
    /\ NoFaultYet(p)
    /\ procs' = [procs EXCEPT ![p].pc = "txnRead", ![p].faults = {"balanceWrite"}]
    /\ UNCHANGED <<wallets, walletLock, stocks, orders, transactions, topups, nowSec, nowMs, sameMs>>
    /\ UNCHANGED outside

\* addTransaction: the insert fails, the catch returns null, the handler
\* answers success
AddTransactionInsertFails(p) ==
    LET me == procs[p] IN
    /\ me.pc = "txnInsert"
    /\ NoFaultYet(p)
    /\ procs' = [procs EXCEPT ![p] = [Finish(p, "ok") EXCEPT !.faults = {"ledgerInsert"}]]
    /\ UNCHANGED <<wallets, walletLock, stocks, orders, transactions, topups, nowSec, nowMs, sameMs>>
    /\ UNCHANGED outside

\* ------------------------------------------- purchase: the request's quantity
\* the cap on the quantity of one purchase (isInt max, handler range check)
QuantityCap == 100

\* req.body.quantity as sent: <<>> when the field is absent, <<n>> otherwise
RawQuantities == {<<>>, <<-1>>, <<0>>, <<1>>, <<2>>, <<QuantityCap + 1>>}

\* (C18 mutant) the route without purchaseValidation / validate
QuantityFieldUnvalidated(raw) == TRUE

\* purchaseValidation + validate:
\* body('quantity').optional().isInt({ min: 1, max: 100 }), 400 on any error
QuantityFieldValid(raw) ==
    raw = <<>> \/ (raw[1] >= 1 /\ raw[1] <= QuantityCap)

\* const quantity = parseInt(req.body.quantity) || 1;
\* (parseInt(undefined) is NaN, and NaN and 0 are falsy)
ParsedQuantity(raw) == IF raw = <<>> \/ raw[1] = 0 THEN 1 ELSE raw[1]

\* if (quantity < 1 || quantity > 100) return res.status(400)
QuantityOutOfRange(q) == q < 1 \/ q > QuantityCap

\* POST /api/products/:id/purchase from the arrival of the request: the
\* validation middleware, the handler's parse and range check, then the rpc
\* call as in PurchaseCall.
PurchaseRequest(p, u, prod, raw, now) ==
    /\ CanStart(p)
    /\ now \in SecReadings
    /\ nowSec' = now
    /\ IF ~QuantityFieldValid(raw) \/ QuantityOutOfRange(ParsedQuantity(raw))
          THEN procs' = [procs EXCEPT ![p] =
                            [NewProc EXCEPT !.op = "purchase", !.pc = "done",
                                             !.user = u, !.product = prod,
                                             !.raw = raw, !.ts = now,
                                             !.outcome = "InvalidQuantity"]]
          ELSE /\ products[prod].is_active
               /\ procs' = [procs EXCEPT ![p] =
                            [NewProc EXCEPT !.op = "purchase", !.pc = "lockWallet",
                                             !.user = u, !.product = prod,
                                             !.raw = raw,
                                             !.qty = ParsedQuantity(raw),
                                             !.amt = products[prod].price * ParsedQuantity(raw),
                                             !.ts = now]]
    /\ UNCHANGED <<wallets, walletLock, stocks, orders, transactions, topups, nowMs, sameMs>>
    /\ UNCHANGED outside

\* ------------------------------------------------------ GET /api/wallet
\* getUserBalance -> getOrCreateWallet, first await: select('*').eq('user_id')
\* .single().  A row: its balance is returned.  No row (PGRST116): the insert
\* follows.
GetBalanceCall(p, u) ==
    /\ CanStart(p)
    /\ procs' = [procs EXCEPT ![p] =
                    IF u \in DOMAIN wallets
                    THEN [NewProc EXCEPT !.op = "getBalance", !.pc = "done", !.user = u,
                                          !.report = <<wallets[u]>>, !.outcome = "ok"]
                    ELSE [NewProc EXCEPT !.op = "getBalance", !.pc = "walletInsert",
                                          !.user = u]]
    /\ UNCHANGED <<wallets, walletLock, stocks, orders, transactions, topups, nowSec, nowMs, sameMs>>
    /\ UNCHANGED outside

\* the select fails with another error: if (error) throw error, and the catch
\* returns { user_id, balance: 0 }
GetBalanceCallFails(p, u) ==
    /\ CanStart(p)
    /\ procs' = [procs EXCEPT ![p] =
                    [NewProc EXCEPT !.op = "getBalance", !.pc = "done", !.user = u,
                                     !.report = <<0>>, !.outcome = "ok",
                                     !.faults = {"walletRead"}]]
    /\ UNCHANGED <<wallets, walletLock, stocks, orders, transactions, topups, nowSec, nowMs, sameMs>>
    /\ UNCHANGED outside

\* insert({ user_id, balance: 0 }).select().single(): the new row is returned;
\* when the row has appeared meanwhile, user_id UNIQUE refuses the insert,
\* createError is thrown and the catch returns balance 0
GetBalanceInsert(p) ==
    LET me == procs[p] IN
    /\ me.pc = "walletInsert"
    /\ wallets' = WalletsAfterRead(me.user)
    /\ procs' = [procs EXCEPT ![p] = [Finish(p, "ok") EXCEPT !.report = <<0>>]]
    /\ UNCHANGED <<walletLock, stocks, orders, transactions, topups, nowSec, nowMs, sameMs>>
    /\ UNCHANGED outside

\* the insert fails in storage: the catch returns balance 0, no row is created
GetBalanceInsertFails(p) ==
    LET me == procs[p] IN
    /\ me.pc = "walletInsert"
    /\ NoFaultYet(p)
    /\ procs' = [procs EXCEPT ![p] =
                    [Finish(p, "ok") EXCEPT !.report = <<0>>, !.faults = {"walletInsert"}]]
    /\ UNCHANGED <<wallets, walletLock, stocks, orders, transactions, topups, nowSec, nowMs, sameMs>>
    /\ UNCHANGED outside

\* ------------------------------------------- POST /api/truemoney/redeem
Vouchers == {"v1", "v2"}

\* what the provider pays for a voucher
VoucherAmount == [v \in Vouchers |-> 1]

\* usedVouchers keeps at most this many hashes
UsedVouchersCap == 10000

\* usedVouchers is a Set in insertion order.  Entries: [hash, n] with n = 1
\* for a hash of Vouchers, and one entry standing for n other hashes.
IsVoucherUsed(v) == \E i \in DOMAIN usedVouchers : usedVouchers[i].hash = v

RECURSIVE SizeOf(_)
SizeOf(seq) == IF seq = <<>> THEN 0 ELSE Head(seq).n + SizeOf(Tail(seq))

\* usedVouchers.delete(usedVouchers.values().next().value), k times
RECURSIVE DeleteFirst(_, _)
DeleteFirst(seq, k) ==
    IF k <= 0 \/ seq = <<>> THEN seq
    ELSE IF Head(seq).n <= k THEN DeleteFirst(Tail(seq), k - Head(seq).n)
    ELSE <<[Head(seq) EXCEPT !.n = @ - k]>> \o Tail(seq)

\* markVoucherUsed: add (no effect on a hash already in the Set), then drop
\* the oldest entry while the size exceeds the cap
MarkVoucherUsed(seq, v) ==
    LET added == IF \E i \in DOMAIN seq : seq[i].hash = v THEN seq
                 ELSE Append(seq, [hash |-> v, n |-> 1])
    IN DeleteFirst(added, SizeOf(added) - UsedVouchersCap)

\* validateVoucherFormat (alreadyUsed -> 400), then redeemAngpao up to its
\* request to the provider; isVoucherUsed is tested again in the same tick
RedeemCall(p, u, v) ==
    /\ CanStart(p)
    /\ procs' = [procs EXCEPT ![p] =
                    IF IsVoucherUsed(v)
                    THEN [NewProc EXCEPT !.op = "redeem", !.pc = "done", !.user = u,
                                          !.voucher = v, !.outcome = "VoucherUsed"]
                    ELSE [NewProc EXCEPT !.op = "redeem", !.pc = "provider", !.user = u,
                                          !.voucher = v]]
    /\ UNCHANGED <<wallets, walletLock, stocks, orders, transactions, topups, nowSec, nowMs, sameMs>>
    /\ UNCHANGED outside

\* the provider's answer and the rest of the handler.
\* A voucher not yet paid out: the provider pays, redeemAngpao marks the hash
\* used and returns success with the amount; the handler then evaluates
\* `await updateBalance(userId, amount)`; server.js declares and imports no
\* updateBalance (its balance writer is updateUserBalance), so the call
\* throws a ReferenceError and the catch answers 500 before any write.
\* A voucher already paid out: the provider refuses; redeemAngpao marks the
\* hash used when the message says so and returns failure (400).
RedeemReply(p, saysUsed) ==
    LET me == procs[p]
        v == me.voucher
    IN
    /\ me.pc = "provider"
    /\ IF v \notin redeemed
       THEN /\ redeemed' = redeemed \cup {v}
            /\ usedVouchers' = MarkVoucherUsed(usedVouchers, v)
            /\ procs' = [procs EXCEPT ![p] =
                            [Finish(p, "ServerError") EXCEPT !.amt = VoucherAmount[v]]]
       ELSE /\ redeemed' = redeemed
            /\ usedVouchers' = IF saysUsed THEN MarkVoucherUsed(usedVouchers, v)
                               ELSE usedVouchers
            /\ procs' = [procs EXCEPT ![p] = Finish(p, "RedeemFailed")]
    /\ UNCHANGED <<wallets, walletLock, stocks, orders, transactions, topups, nowSec, nowMs, sameMs>>
    /\ UNCHANGED <<productsCache, invalidated, blockedIPs, timers, clock>>

\* other users redeem k vouchers with other hashes, one markVoucherUsed each
OtherVouchersUsed(k) ==
    /\ ~IsVoucherUsed("others")
    /\ usedVouchers' =
          LET added == Append(usedVouchers, [hash |-> "others", n |-> k])
          IN DeleteFirst(added, SizeOf(added) - UsedVouchersCap)
    /\ UNCHANGED <<wallets, walletLock, stocks, orders, transactions, topups, procs, nowSec, nowMs, sameMs>>
    /\ UNCHANGED <<redeemed, productsCache, invalidated, blockedIPs, timers, clock>>

\* ------------------------------------------- product list cache (cache.js)
\* getCachedProducts without a category
ProductsKey == "products_all"

\* getProducts: per product the units not sold (stock) and sold (sales)
StockCounts ==
    <<Cardinality({s \in DOMAIN stocks : ~stocks[s].is_sold}),
      Cardinality({s \in DOMAIN stocks : stocks[s].is_sold})>>

\* cache.get(key) !== undefined
CacheHit(key) == key \in DOMAIN productsCache

\* GET /api/products, getOrSet up to its first await: a cached list is
\* returned at once, otherwise the queries of getProducts are sent
ListProductsCall(p) ==
    /\ CanStart(p)
    /\ procs' = [procs EXCEPT ![p] =
                    IF CacheHit(ProductsKey)
                    THEN [NewProc EXCEPT !.op = "listProducts", !.pc = "done",
                                          !.outcome = "ok",
                                          !.report = productsCache[ProductsKey]]
                    ELSE [NewProc EXCEPT !.op = "listProducts", !.pc = "fetch"]]
    /\ UNCHANGED <<wallets, walletLock, stocks, orders, transactions, topups, nowSec, nowMs, sameMs>>
    /\ UNCHANGED outside

\* the database answers the product_stocks query of getProducts
ListProductsFetch(p) ==
    /\ procs[p].pc = "fetch"
    /\ procs' = [procs EXCEPT ![p] = [@ EXCEPT !.pc = "set", !.report = StockCounts]]
    /\ UNCHANGED <<wallets, walletLock, stocks, orders, transactions, topups, nowSec, nowMs, sameMs>>
    /\ UNCHANGED outside

\* the answer arrives: getOrSet stores it under the key and returns it
ListProductsSet(p) ==
    /\ procs[p].pc = "set"
    /\ productsCache' = (ProductsKey :> procs[p].report)
    /\ procs' = [procs EXCEPT ![p] = [@ EXCEPT !.pc = "done", !.outcome = "ok"]]
    /\ UNCHANGED <<wallets, walletLock, stocks, orders, transactions, topups, nowSec, nowMs, sameMs>>
    /\ UNCHANGED <<usedVouchers, redeemed, invalidated, blockedIPs, timers, clock>>

\* the purchase handler after its rpc returned success:
\* invalidateProductsCache -> productsCache.flushAll()
PurchaseInvalidate(p) ==
    /\ procs[p].op = "purchase"
    /\ procs[p].pc = "done"
    /\ procs[p].outcome = "Committed"
    /\ p \notin invalidated
    /\ productsCache' = <<>>
    /\ invalidated' = invalidated \cup {p}
    /\ UNCHANGED <<wallets, walletLock, stocks, orders, transactions, topups, procs, nowSec, nowMs, sameMs>>
    /\ UNCHANGED <<usedVouchers, redeemed, blockedIPs, timers, clock>>

\* stdTTL: node-cache drops the key 300 s after it was set
CacheExpire ==
    /\ CacheHit(ProductsKey)
    /\ productsCache' = <<>>
    /\ UNCHANGED <<wallets, walletLock, stocks, orders, transactions, topups, procs, nowSec, nowMs, sameMs>>
    /\ UNCHANGED <<usedVouchers, redeemed, invalidated, blockedIPs, timers, clock>>

\* ------------------------------------------------ POST /api/angpao/submit
\* the pending requests the angpao route counts: .like('slip_url',
\* '%gift.truemoney.com%')
PendingAngpaoOf(u) == {r \in PendingOf(u) : topups[r].angpao}

\* validateVoucherFormat, then the select of pending requests and the cap
AngpaoSubmitCall(p, u, a, valid) ==
    /\ CanStart(p)
    /\ procs' = [procs EXCEPT ![p] =
                    IF ~valid
                    THEN [NewProc EXCEPT !.op = "angpaoSubmit", !.pc = "done", !.user = u,
                                          !.amt = a, !.outcome = "InvalidVoucher"]
                    ELSE IF Cardinality(PendingAngpaoOf(u)) >= PendingCap
                    THEN [NewProc EXCEPT !.op = "angpaoSubmit", !.pc = "done", !.user = u,
                                          !.amt = a, !.outcome = "TooManyPending"]
                    ELSE [NewProc EXCEPT !.op = "angpaoSubmit", !.pc = "angpaoInsert",
                                          !.user = u, !.amt = a]]
    /\ UNCHANGED <<wallets, walletLock, stocks, orders, transactions, topups, nowSec, nowMs, sameMs>>
    /\ UNCHANGED outside

\* insert({request_id, user_id, amount: expectedAmount or 0, method:
\* 'truemoney', slip_url: voucherLink, status: 'pending'})
AngpaoSubmitInsert(p) ==
    LET me == procs[p]
        r == Cardinality(DOMAIN topups) + 1
    IN
    /\ me.pc = "angpaoInsert"
    /\ topups' = topups @@ (r :> PendingRow(me.user, me.amt, TRUE))
    /\ procs' = [procs EXCEPT ![p] = [Finish(p, "ok") EXCEPT !.req = r]]
    /\ UNCHANGED <<wallets, walletLock, stocks, orders, transactions, nowSec, nowMs, sameMs>>
    /\ UNCHANGED outside

\* ------------------------------------------- markStockAsSold (server.js)
\* the id lists a caller may pass
StockIdLists ==
    {<<s>> : s \in StockIds}
       \cup {<<st[1], st[2]>> : st \in {x \in StockIds \X StockIds : x[1] < x[2]}}

\* update({is_sold: true, sold_to: userId, sold_at: new Date(), order_id:
\* orderId}).in('id', stockIds): one statement, applied to every listed row
\* that exists; returns true unless the statement fails
MarkStockAsSold(p, ids, u, ord, now) ==
    /\ CanStart(p)
    /\ now \in {t \in {nowMs, nowMs + 1} : t >= 1}
    /\ nowMs' = now
    /\ stocks' = [s \in DOMAIN stocks |->
                    IF s \in Range(ids)
                    THEN [stocks[s] EXCEPT !.is_sold = TRUE, !.sold_to = u,
                                           !.sold_at = now, !.order_id = OrderIdOf(ord)]
                    ELSE stocks[s]]
    /\ procs' = [procs EXCEPT ![p] =
                    [NewProc EXCEPT !.op = "markStockAsSold", !.pc = "done", !.user = u,
                                     !.items = ids, !.ts = ord, !.outcome = "true"]]
    /\ UNCHANGED <<wallets, walletLock, orders, transactions, topups, nowSec, sameMs>>
    /\ UNCHANGED outside

\* ------------------------------------------------ IP blocking (security.js)
IPs == {"ip1", "ip2"}

\* blockIP's default duration and the one detectSuspiciousActivity passes (ms)
DefaultDuration == 3600000

\* the clock advances in half hours
TickStep == DefaultDuration \div 2

Durations == {TickStep, DefaultDuration}

\* calls of blockIP during a run, and the end of the observed time
MaxBlocks == 3
MaxClock == 2 * DefaultDuration

\* timers: one entry per setTimeout of blockIP, [ip, due, n, fired]; n numbers
\* the calls in order
Pending == {t \in timers : ~t.fired}

\* blockedIPs.add(ip); setTimeout(() => blockedIPs.delete(ip), duration)
BlockedAfter(ip) == blockedIPs \cup {ip}
TimersAfter(ip, duration) ==
    timers \cup {[ip |-> ip, due |-> clock + duration,
                  n |-> Cardinality(timers) + 1, fired |-> FALSE]}

CanBlock(duration) ==
    /\ Cardinality(timers) < MaxBlocks
    /\ clock + duration <= MaxClock

\* a call of the exported blockIP(ip, duration)
BlockIP(ip, duration) ==
    /\ CanBlock(duration)
    /\ blockedIPs' = BlockedAfter(ip)
    /\ timers' = TimersAfter(ip, duration)
    /\ UNCHANGED <<wallets, walletLock, stocks, orders, transactions, topups, procs, nowSec, nowMs, sameMs>>
    /\ UNCHANGED <<usedVouchers, redeemed, productsCache, invalidated, clock>>

\* a request passing app.use(ipBlocker) and app.use(detectSuspiciousActivity):
\* 403 for a blocked address; a request matching a suspicious pattern blocks
\* its address for an hour and gets 400; any other request goes on
IpRequest(p, ip, suspicious) ==
    /\ CanStart(p)
    /\ IF ip \in blockedIPs
       THEN /\ procs' = [procs EXCEPT ![p] =
                            [NewProc EXCEPT !.op = "request", !.pc = "done", !.user = ip,
                                             !.outcome = "403"]]
            /\ UNCHANGED <<blockedIPs, timers>>
       ELSE IF suspicious
       THEN /\ CanBlock(DefaultDuration)
            /\ blockedIPs' = BlockedAfter(ip)
            /\ timers' = TimersAfter(ip, DefaultDuration)
            /\ procs' = [procs EXCEPT ![p] =
                            [NewProc EXCEPT !.op = "request", !.pc = "done", !.user = ip,
                                             !.outcome = "400"]]
       ELSE /\ procs' = [procs EXCEPT ![p] =
                            [NewProc EXCEPT !.op = "request", !.pc = "done", !.user = ip,
                                             !.outcome = "next"]]
            /\ UNCHANGED <<blockedIPs, timers>>
    /\ UNCHANGED <<wallets, walletLock, stocks, orders, transactions, topups, nowSec, nowMs, sameMs>>
    /\ UNCHANGED <<usedVouchers, redeemed, productsCache, invalidated, clock>>

\* a timer that is due runs its callback: blockedIPs.delete(ip); timers run
\* in the order of their due times, and of their creation when those are equal
TimerFires(t) ==
    /\ t \in Pending
    /\ t.due <= clock
    /\ \A o \in Pending : o.due > t.due \/ (o.due = t.due /\ o.n >= t.n)
    /\ blockedIPs' = blockedIPs \ {t.ip}
    /\ timers' = (timers \ {t}) \cup {[t EXCEPT !.fired = TRUE]}
    /\ UNCHANGED <<wallets, walletLock, stocks, orders, transactions, topups, procs, nowSec, nowMs, sameMs>>
    /\ UNCHANGED <<usedVouchers, redeemed, productsCache, invalidated, clock>>

\* time passes once the timers that are due have run
Tick ==
    /\ clock + TickStep <= MaxClock
    /\ \A t \in Pending : t.due > clock
    /\ clock' = clock + TickStep
    /\ UNCHANGED <<wallets, walletLock, stocks, orders, transactions, topups, procs, nowSec, nowMs, sameMs>>
    /\ UNCHANGED <<usedVouchers, redeemed, productsCache, invalidated, blockedIPs, timers>>

\* --------------------------------------------------------- specifications
NextPurchase ==
    \/ \E p \in Procs, u \in Accounts, prod \in Products, q \in Quantities, now \in 1..NProcs :
          PurchaseCall(p, u, prod, q, now)
    \/ \E p \in Procs : PurchaseLockWallet(p)
    \/ \E p \in Procs : PurchaseReserve(p)
    \/ \E p \in Procs : PurchaseCommit(p)

SpecPurchase == Init /\ [][NextPurchase]_vars

\* purchases issued through the route, quantity as sent by the client
NextQuantity ==
    \/ \E p \in Procs, u \in Accounts, prod \in Products, raw \in RawQuantities, now \in 1..NProcs :
          PurchaseRequest(p, u, prod, raw, now)
    \/ \E p \in Procs : PurchaseLockWallet(p)
    \/ \E p \in Procs : PurchaseReserve(p)
    \/ \E p \in Procs : PurchaseCommit(p)

SpecQuantity == Init /\ [][NextQuantity]_vars

NextWallet ==
    \/ \E p \in Procs, u \in Accounts, a \in Amounts : DeductCall(p, u, a)
    \/ \E p \in Procs, u \in Accounts, a \in Amounts : AdminTopupCall(p, u, a)
    \/ \E p \in Procs : UpdateUserBalance(p)
    \/ \E p \in Procs, now \in 1..NProcs : AddTransactionRead(p, now)
    \/ \E p \in Procs : AddTransactionInsert(p)

NextTopup ==
    \/ \E p \in Procs, r \in ReqIds, a \in {0} \cup Amounts : ApproveCall(p, r, a)
    \/ \E p \in Procs : ApproveUpdate(p)
    \/ \E p \in Procs : ApproveRead(p)
    \/ \E p \in Procs, r \in ReqIds : RejectCall(p, r)
    \/ \E p \in Procs : RejectUpdate(p)
    \/ \E p \in Procs, r \in ReqIds, u \in Accounts : CancelCall(p, r, u)
    \/ \E p \in Procs : CancelUpdate(p)

NextStock ==
    \/ \E p \in Procs, s \in StockIds : DeleteStockCall(p, s)
    \/ \E p \in Procs : DeleteStockRow(p)

Next == NextPurchase \/ NextWallet \/ NextTopup \/ NextStock

Spec == Init /\ [][Next]_vars

\* the wallet and top-up handlers with storage failures
NextFault ==
    \/ NextWallet
    \/ NextTopup
    \/ \E p \in Procs : ApproveUpdateFails(p)
    \/ \E p \in Procs : ApproveReadFails(p)
    \/ \E p \in Procs, u \in Accounts, a \in Amounts : AdminTopupCallFails(p, u, a)
    \/ \E p \in Procs : UpdateUserBalanceFails(p)
    \/ \E p \in Procs : AddTransactionInsertFails(p)

SpecFault == Init /\ [][NextFault]_vars

\* the life of top-up requests: submit, slip verification, approve, reject,
\* cancel (with the wallet steps an approval runs)
NextTopupLife ==
    \/ \E p \in Procs, u \in Accounts, a \in Amounts : SubmitTopupCall(p, u, a)
    \/ \E p \in Procs : SubmitTopupInsert(p)
    \/ \E p \in Procs, r \in DOMAIN topups, u \in Accounts, ok \in BOOLEAN :
          VerifySlipCall(p, r, u, ok)
    \/ NextTopup
    \/ \E p \in Procs : UpdateUserBalance(p)
    \/ \E p \in Procs, now \in 1..NProcs : AddTransactionRead(p, now)
    \/ \E p \in Procs : AddTransactionInsert(p)

SpecTopupLife == Init /\ [][NextTopupLife]_vars

\* balance reads next to the handlers that write balances
NextBalanceRead ==
    \/ \E p \in Procs, u \in Accounts : GetBalanceCall(p, u)
    \/ \E p \in Procs : GetBalanceInsert(p)
    \/ NextWallet

SpecBalanceRead == Init /\ [][NextBalanceRead]_vars

\* the same with storage failures in getOrCreateWallet
NextBalance ==
    \/ NextBalanceRead
    \/ \E p \in Procs, u \in Accounts : GetBalanceCallFails(p, u)
    \/ \E p \in Procs : GetBalanceInsertFails(p)

SpecBalance == Init /\ [][NextBalance]_vars

\* purchases under fair scheduling: the database runs every statement of a
\* started transaction, and a lock wait ends once the lock is free
FairPurchase ==
    \A p \in Procs :
        /\ WF_vars(PurchaseLockWallet(p))
        /\ WF_vars(PurchaseReserve(p))
        /\ WF_vars(PurchaseCommit(p))

SpecPurchaseFair == SpecPurchase /\ FairPurchase

\* voucher redemption
NextVoucher ==
    \/ \E p \in Procs, u \in Accounts, v \in Vouchers : RedeemCall(p, u, v)
    \/ \E p \in Procs, saysUsed \in BOOLEAN : RedeemReply(p, saysUsed)
    \/ \E k \in {1, UsedVouchersCap} : OtherVouchersUsed(k)

SpecVoucher == Init /\ [][NextVoucher]_vars

\* purchases next to product-list reads through the cache
NextCache ==
    \/ NextPurchase
    \/ \E p \in Procs : PurchaseInvalidate(p)
    \/ \E p \in Procs : ListProductsCall(p)
    \/ \E p \in Procs : ListProductsFetch(p)
    \/ \E p \in Procs : ListProductsSet(p)
    \/ CacheExpire

SpecCache == Init /\ [][NextCache]_vars

\* top-up submissions of both kinds next to cancel, approve and reject, from
\* one to three pending requests
NextPending ==
    \/ \E p \in Procs, u \in Accounts, a \in Amounts : SubmitTopupCall(p, u, a)
    \/ \E p \in Procs : SubmitTopupInsert(p)
    \/ \E p \in Procs, u \in Accounts, a \in {0} \cup Amounts, valid \in BOOLEAN :
          AngpaoSubmitCall(p, u, a, valid)
    \/ \E p \in Procs : AngpaoSubmitInsert(p)
    \/ NextTopup
    \/ \E p \in Procs : UpdateUserBalance(p)
    \/ \E p \in Procs, now \in 1..NProcs : AddTransactionRead(p, now)
    \/ \E p \in Procs : AddTransactionInsert(p)

SpecPending == InitPending /\ [][NextPending]_vars

\* calls of markStockAsSold
NextFinalize ==
    \E p \in Procs, ids \in StockIdLists, u \in Accounts, ord \in 1..NProcs, now \in 1..NProcs :
        MarkStockAsSold(p, ids, u, ord, now)

SpecFinalize == Init /\ [][NextFinalize]_vars

\* purchases from a catalog of two products
NextCatalog ==
    \/ \E p \in Procs, u \in Accounts, prod \in Catalog, q \in Quantities, now \in 1..NProcs :
          PurchaseCall(p, u, prod, q, now)
    \/ \E p \in Procs : PurchaseLockWallet(p)
    \/ \E p \in Procs : PurchaseReserve(p)
    \/ \E p \in Procs : PurchaseCommit(p)

SpecCatalog == InitCatalog /\ [][NextCatalog]_vars

\* requests through ipBlocker, calls of blockIP, timers and time
NextBlock ==
    \/ \E ip \in IPs, d \in Durations : BlockIP(ip, d)
    \/ \E p \in Procs, ip \in IPs, suspicious \in BOOLEAN : IpRequest(p, ip, suspicious)
    \/ \E t \in timers : TimerFires(t)
    \/ Tick

SpecBlock == Init /\ [][NextBlock]_vars

\* ------------------------------------------------------ derived notions
Quiescent == \A p \in Procs : procs[p].pc \in {"idle", "done"}

PurchaseProcs == {p \in Procs : procs[p].op = "purchase"}

Terminal == {"approved", "rejected", "cancelled"}

\* the ledger entries of one account, in commit order
LedgerOf(u) == SelectSeq(transactions, LAMBDA t : t.user_id = u)

RECURSIVE SumAmounts(_)
SumAmounts(entries) ==
    IF entries = <<>> THEN 0
    ELSE Head(entries).amount + SumAmounts(Tail(entries))

UnitsOfOrder(oid) == {s \in DOMAIN stocks : stocks[s].order_id = oid}

\* approve handlers that have written the credited balance (updateUserBalance done)
HasCredited(p) ==
    /\ procs[p].op = "approve"
    /\ \/ procs[p].pc \in {"txnRead", "txnInsert"}
       \/ procs[p].pc = "done" /\ procs[p].outcome = "ok"

ApproveCalls(r) == {p \in Procs : procs[p].op = "approve" /\ procs[p].req = r}

CreditEntries(r) ==
    {i \in DOMAIN transactions :
        transactions[i].type = "topup" /\ transactions[i].request_id = <<r>>}

\* ----------------------------------------------------------------- claims

\* C1 -- No oversell: when the product starts with K = NStock unsold units and
\* all M = NProcs >= K requests are purchases of quantity 1 by accounts whose
\* wallet covers all their purchases, then once all have ended exactly K of
\* them are Committed and the other M - K ended InsufficientStock.
C1_NoOversell ==
    ( /\ \A p \in Procs : /\ procs[p].op = "purchase"
                          /\ procs[p].pc = "done"
                          /\ procs[p].qty = 1
      /\ NProcs >= NStock
      /\ \A u \in Accounts :
            LET mine == {p \in Procs : procs[p].user = u} IN
            mine # {} => /\ u \in DOMAIN wallets
                         /\ Cardinality(mine) * products["p1"].price <= InitBalance )
    => /\ Cardinality({p \in Procs : procs[p].outcome = "Committed"}) = NStock
       /\ Cardinality({p \in Procs : procs[p].outcome = "InsufficientStock"})
             = NProcs - NStock

\* C2 -- A stock unit is sold at most once: a unit that is sold stays sold with
\* the same soldTo, soldAt and orderId in every later state, and no unit's
\* payload is delivered by two orders (or twice by one).
SoldUnitFrozen ==
    \A s \in DOMAIN stocks \cap DOMAIN stocks' :
        stocks[s].is_sold =>
            /\ stocks'[s].is_sold
            /\ stocks'[s].sold_to = stocks[s].sold_to
            /\ stocks'[s].sold_at = stocks[s].sold_at
            /\ stocks'[s].order_id = stocks[s].order_id

DeliveredOnce ==
    \A i, j \in DOMAIN orders :
        /\ i # j => Range(orders[i].items) \cap Range(orders[j].items) = {}
        /\ Cardinality(Range(orders[i].items)) = Len(orders[i].items)

C2_SoldAtMostOnce == [](DeliveredOnce) /\ [][SoldUnitFrozen]_vars

\* a unit was sold by one purchase and a later purchase has committed as well
C2_Witness ==
    /\ Len(orders) >= 2
    /\ \E s \in DOMAIN stocks : stocks[s].is_sold /\ stocks[s].order_id = orders[1].order_id

\* C3 -- Settlement is all-or-nothing: every purchase debit in the ledger has a
\* matching order whose units are marked sold to that account, and every sold
\* unit has a matching order and a matching debit.
C3_AllOrNothing ==
    /\ \A t \in Range(transactions) :
          t.type = "purchase" =>
             \E o \in Range(orders) :
                /\ o.order_id = t.order_id
                /\ o.user_id = t.user_id
                /\ o.total = 0 - t.amount
                /\ Cardinality(UnitsOfOrder(o.order_id)) = o.quantity
                /\ \A s \in UnitsOfOrder(o.order_id) :
                      stocks[s].is_sold /\ stocks[s].sold_to = t.user_id
    /\ \A s \in DOMAIN stocks :
          stocks[s].is_sold =>
             /\ \E o \in Range(orders) :
                   o.order_id = stocks[s].order_id /\ o.user_id = stocks[s].sold_to
             /\ \E t \in Range(transactions) :
                   /\ t.type = "purchase"
                   /\ t.order_id = stocks[s].order_id
                   /\ t.user_id = stocks[s].sold_to

\* C4 -- After a purchase request that did not end Committed, no stock unit and
\* no ledger entry references the orderId that request attempted.
C4_FailedPurchaseLeavesNoTrace ==
    \A p \in PurchaseProcs :
        (procs[p].pc = "done" /\ procs[p].outcome # "Committed") =>
            /\ \A s \in DOMAIN stocks : stocks[s].order_id # OrderIdOf(procs[p].ts)
            /\ \A t \in Range(transactions) : t.order_id # OrderIdOf(procs[p].ts)

\* (the part of C4 the stored procedure does guarantee: the step that ends a
\* purchase without a commit changes no row, it only releases row locks)
SoldAndDelivered ==
    [s \in DOMAIN stocks |-> [stocks[s] EXCEPT !.lock = 0]]

FailedPurchaseWritesNothing ==
    [][\A p \in PurchaseProcs :
          (procs[p].pc # "done" /\ procs'[p].pc = "done" /\ procs'[p].outcome # "Committed")
          => /\ UNCHANGED <<wallets, orders, transactions, topups>>
             /\ SoldAndDelivered' = SoldAndDelivered]_vars

\* C5 -- No negative balance: every wallet balance is >= 0 in every reachable
\* state, every balance a debit is about to write is >= 0, and the step in
\* which a debit is refused for lack of funds writes nothing.
BalancesNonNegative ==
    /\ \A u \in DOMAIN wallets : wallets[u] >= 0
    /\ \A p \in Procs : procs[p].pc = "updateBalance" => procs[p].newBal >= 0
    /\ \A p \in Procs : procs[p].pc \in {"reserve", "commit"} =>
                           procs[p].bal - procs[p].amt >= 0

DebitRefusedWritesNothing ==
    \A p \in Procs :
        ( /\ procs[p].outcome = "none"
          /\ procs'[p].outcome \in {"InsufficientFunds", "InsufficientBalance"} )
        => /\ \A u \in DOMAIN wallets : wallets'[u] = wallets[u]
           /\ UNCHANGED <<stocks, orders, transactions, topups>>

C6_LedgerConsistency ==
    Quiescent => \A u \in DOMAIN wallets : SumAmounts(LedgerOf(u)) = wallets[u]

\* C7 -- balanceAfter is a true prefix sum: for each account, each ledger
\* entry's balanceAfter is the previous entry's balanceAfter (0 before the
\* first) plus its own amount.
C7_BalanceAfterPrefixSum ==
    \A u \in Accounts :
        LET es == LedgerOf(u) IN
        \A i \in DOMAIN es :
            es[i].balance_after =
                (IF i = 1 THEN 0 ELSE es[i - 1].balance_after) + es[i].amount

\* C8 -- Idempotent approval: once an approve call on a request has completed
\* successfully, every approve call on that request issued after it has failed
\* NotPending, and when those are all the approve calls on the request, the
\* ledger holds exactly one credit entry for the request.
C8_IdempotentApproval ==
    \A r \in ReqIds : \A p \in ApproveCalls(r) :
        (procs[p].pc = "done" /\ procs[p].outcome = "ok") =>
            /\ \A q \in ApproveCalls(r) :
                  p \in procs[q].after => procs[q].outcome = "NotPending"
            /\ (\A q \in ApproveCalls(r) \ {p} : p \in procs[q].after)
                  => Cardinality(CreditEntries(r)) = 1

\* C9 -- The pending guard prevents double approval: of the approve calls on
\* one request at most one credits the account, at most one credit entry is
\* written, and every other call that has ended failed NotPending.
C9_NoDoubleApproval ==
    \A r \in ReqIds :
        /\ Cardinality({p \in ApproveCalls(r) : HasCredited(p)}) <= 1
        /\ Cardinality(CreditEntries(r)) <= 1
        /\ Cardinality({p \in ApproveCalls(r) :
                           procs[p].pc = "done" /\ procs[p].outcome # "NotPending"}) <= 1

\* C10 -- Top-up terminal states are final: a request whose status is approved,
\* rejected or cancelled keeps that status in every later state.
TerminalStatusKept ==
    \A r \in ReqIds : topups[r].status \in Terminal => topups'[r].status = topups[r].status

C10_TerminalStatesFinal == [][TerminalStatusKept]_vars

\* C11 -- approve is atomic: for every approve call that has ended, either it
\* set the request approved, wrote the credited balance and recorded the credit
\* ledger entry, or it did none of the three; also when one storage operation
\* of the call failed.
Transitioned(p) ==
    /\ procs[p].op = "approve"
    /\ \/ procs[p].pc \in {"approveRead", "updateBalance", "txnRead", "txnInsert"}
       \/ procs[p].pc = "done" /\ procs[p].outcome = "ok"

Credited(p) == HasCredited(p) /\ "balanceWrite" \notin procs[p].faults

Recorded(p) ==
    /\ procs[p].op = "approve" /\ procs[p].pc = "done" /\ procs[p].outcome = "ok"
    /\ \E t \in Range(transactions) :
          /\ t.transaction_id = JsTxnIdOf(procs[p].ts)
          /\ t.type = "topup"
          /\ t.request_id = <<procs[p].req>>

C11_ApproveAtomic ==
    \A p \in Procs :
        (procs[p].op = "approve" /\ procs[p].pc = "done") =>
            /\ Transitioned(p) <=> Credited(p)
            /\ Credited(p) <=> Recorded(p)

\* C12 -- reject and cancel are pure state transitions: a step of a reject or
\* cancel call changes no wallet, no ledger entry, no order and no stock unit,
\* and of the top-up requests only the status and review fields of its own
\* request; when that request is not pending the step fails NotPending and
\* changes nothing.
RejectCancelStep(p) ==
    /\ procs'[p] # procs[p]
    /\ procs'[p].op \in {"reject", "cancel"}

\* (the frame alone: what a reject or cancel step leaves untouched)
RejectCancelFrame(p) ==
    /\ UNCHANGED <<wallets, transactions, orders, stocks>>
    /\ \A r \in ReqIds :
          /\ r # procs'[p].req => topups'[r] = topups[r]
          /\ topups'[r].user_id = topups[r].user_id
          /\ topups'[r].amount = topups[r].amount

RejectCancelFrameKept == [][\A p \in Procs : RejectCancelStep(p) => RejectCancelFrame(p)]_vars

C12_RejectCancelPure ==
    [][\A p \in Procs :
          RejectCancelStep(p) =>
             /\ RejectCancelFrame(p)
             /\ topups[procs'[p].req].status # "pending" =>
                    /\ topups' = topups
                    /\ procs'[p].outcome = "NotPending"]_vars

\* C13 -- Every top-up request is created with status pending, and in every
\* reachable state the status of every request is one of pending, approved,
\* rejected, cancelled: no operation (submit, approve, reject, cancel, slip
\* verification) stores another value.
StatusInDomain == \A r \in DOMAIN topups : topups[r].status \in StatusValues

CreatedPending ==
    \A r \in DOMAIN topups' \ DOMAIN topups : topups'[r].status = "pending"

C13_StatusValues == [](StatusInDomain) /\ [][CreatedPending]_vars

\* a submitted request exists and a slip verification that the provider
\* accepted has run on a request of its owner
C13_Witness ==
    /\ \E r \in DOMAIN topups : r \notin ReqIds
    /\ \E p \in Procs :
          /\ procs[p].op = "verifySlip"
          /\ procs[p].outcome \in {"ok", "ServerError"}
          /\ topups[procs[p].req].user_id = procs[p].user

\* C14 -- Purchases on one wallet are serialized: of the purchases on a wallet
\* at most one has read the balance and not yet committed or rolled back, and
\* the debits of the purchases that committed on a wallet never sum to more
\* than the balance before them.
InTransaction(p) == procs[p].op = "purchase" /\ procs[p].pc \in {"reserve", "commit"}

PurchaseDebits(u) ==
    0 - SumAmounts(SelectSeq(LedgerOf(u), LAMBDA t : t.type = "purchase"))

C14_SameWalletSerialized ==
    /\ \A p, q \in Procs :
          (p # q /\ InTransaction(p) /\ InTransaction(q)) => procs[p].user # procs[q].user
    /\ \A p \in Procs : InTransaction(p) => walletLock[procs[p].user] = p
    /\ \A u \in DOMAIN wallets :
          /\ PurchaseDebits(u) <= InitBalance
          /\ wallets[u] = InitBalance - PurchaseDebits(u)

\* one purchase holds the wallet while another purchase on the same wallet,
\* already started, waits to read the balance
C14_Witness ==
    \E p, q \in Procs :
        /\ p # q
        /\ procs[p].user = procs[q].user
        /\ InTransaction(p)
        /\ procs[q].op = "purchase" /\ procs[q].pc = "lockWallet"
        /\ procs[p].amt + procs[q].amt > InitBalance

\* C15 -- Concurrent purchases claim disjoint stock units and do not wait for
\* each other's units: the units two purchases hold reserved are disjoint,
\* each is unsold and locked by its holder, no payload is delivered by two
\* orders, and the stock selection of a purchase can always proceed (locked
\* units are skipped).
Reserved(p) ==
    IF procs[p].op = "purchase" /\ procs[p].pc = "commit" THEN Range(procs[p].items) ELSE {}

C15_DisjointSkipLocked ==
    /\ \A p, q \in Procs : p # q => Reserved(p) \cap Reserved(q) = {}
    /\ \A p \in Procs : \A s \in Reserved(p) :
          s \in DOMAIN stocks /\ stocks[s].lock = p /\ ~stocks[s].is_sold
    /\ DeliveredOnce
    /\ \A p \in Procs :
          (procs[p].op = "purchase" /\ procs[p].pc = "reserve") => ENABLED PurchaseReserve(p)

\* two purchases by different wallets hold reserved units of the same product
\* at the same time
C15_Witness ==
    \E p, q \in Procs :
        /\ procs[p].user # procs[q].user
        /\ procs[p].product = procs[q].product
        /\ Reserved(p) # {} /\ Reserved(q) # {}

\* C16 -- Sequential purchase result: a purchase that runs alone, of quantity
\* q and total q*p, by an account with balance b on a product with n unsold
\* units, commits when q <= n and q*p <= b, with total q*p, new balance
\* b - q*p, q payloads delivered and n - q units left unsold; when q*p > b it
\* fails InsufficientBalance reporting b and q*p.
Unsold(prod) == {s \in DOMAIN stocks : stocks[s].product_id = prod /\ ~stocks[s].is_sold}

\* p ends in this step
Ends(p) == procs[p].pc # "done" /\ procs'[p].pc = "done"

\* no other request ran while p did
RanAlone(p) ==
    \A q \in Procs \ {p} :
        \/ procs[q].pc = "idle"
        \/ procs[q].pc = "done" /\ q \in procs[p].after

SequentialResult(p) ==
    LET me == procs[p]
        u == me.user
        total == me.qty * products[me.product].price
        n == Cardinality(Unsold(me.product))
    IN
    u \in DOMAIN wallets =>
       /\ (me.qty <= n /\ total <= wallets[u]) =>
             /\ procs'[p].outcome = "Committed"
             /\ wallets'[u] = wallets[u] - total
             /\ Cardinality(Unsold(me.product)') = n - me.qty
             /\ Len(orders') = Len(orders) + 1
             /\ orders'[Len(orders')].total = total
             /\ orders'[Len(orders')].user_id = u
             /\ Len(orders'[Len(orders')].items) = me.qty
             /\ Len(transactions') = Len(transactions) + 1
             /\ transactions'[Len(transactions')].amount = 0 - total
             /\ transactions'[Len(transactions')].balance_after = wallets[u] - total
       /\ total > wallets[u] =>
             /\ procs'[p].outcome = "InsufficientBalance"
             /\ procs'[p].report = <<wallets[u], total>>
             /\ UNCHANGED <<wallets, orders, transactions>>

C16_SequentialPurchase ==
    [][\A p \in PurchaseProcs : (Ends(p) /\ RanAlone(p)) => SequentialResult(p)]_vars

\* (the same for the purchases whose clock second no earlier order took)
SequentialResultFreshSecond ==
    [][\A p \in PurchaseProcs :
          (Ends(p) /\ RanAlone(p) /\ OrderIdOf(procs[p].ts) \notin OrderIds)
          => SequentialResult(p)]_vars

\* C17 -- A purchase for an account without a wallet fails WalletMissing and
\* creates none: the step that ends such a purchase ends it WalletMissing,
\* leaves the account without a wallet row and changes no wallet, stock unit,
\* order or ledger entry; and only accounts without a wallet get WalletMissing.
C17_WalletMissing ==
    [][\A p \in PurchaseProcs :
          /\ (Ends(p) /\ procs[p].user \notin DOMAIN wallets) =>
                /\ procs'[p].outcome = "WalletMissing"
                /\ procs[p].user \notin DOMAIN wallets'
                /\ UNCHANGED <<wallets, orders, transactions>>
                /\ SoldAndDelivered' = SoldAndDelivered
          /\ (Ends(p) /\ procs'[p].outcome = "WalletMissing") =>
                procs[p].user \notin DOMAIN wallets]_vars

\* a purchase has ended WalletMissing and its account still has no wallet
C17_Witness ==
    \E p \in PurchaseProcs :
        /\ procs[p].outcome = "WalletMissing"
        /\ procs[p].user \notin DOMAIN wallets

\* ---------------------------------------------------------------- C18
\* C18: a purchase request whose quantity is <= 0 or above the cap (100) is
\* rejected as InvalidQuantity with no effect: the step that handles it
\* ends the request at once and leaves wallets, stock units, orders and
\* ledger entries as they were.
QuantityInvalid(raw) == raw # <<>> /\ (raw[1] <= 0 \/ raw[1] > QuantityCap)

Arrives(p) == procs[p].pc = "idle" /\ procs'[p].op = "purchase"

C18_InvalidQuantityRejected ==
    [][\A p \in Procs :
          (Arrives(p) /\ QuantityInvalid(procs'[p].raw)) =>
              /\ procs'[p].pc = "done"
              /\ procs'[p].outcome = "InvalidQuantity"
              /\ UNCHANGED <<wallets, walletLock, stocks, orders, transactions>>]_vars

\* a request with quantity 0 was rejected while another purchase committed
C18_Witness ==
    \E p, q \in Procs :
        /\ procs[p].raw = <<0>> /\ procs[p].outcome = "InvalidQuantity"
        /\ procs[q].op = "purchase" /\ procs[q].outcome = "Committed"

\* ---------------------------------------------------------------- C19
\* the orders carrying one orderId
OrdersWithId(oid) == {i \in DOMAIN orders : orders[i].order_id = oid}

\* C19: every successful purchase is keyed by a freshly generated orderId:
\* any two committed orders have distinct orderIds, and the orderId of every
\* sold stock unit and of every purchase ledger entry identifies exactly one
\* order.
C19_FreshOrderId ==
    /\ \A i, j \in DOMAIN orders :
          i # j => orders[i].order_id # orders[j].order_id
    /\ \A s \in DOMAIN stocks :
          stocks[s].is_sold => Cardinality(OrdersWithId(stocks[s].order_id)) = 1
    /\ \A t \in Range(transactions) :
          t.type = "purchase" => Cardinality(OrdersWithId(t.order_id)) = 1

\* ---------------------------------------------------------------- C20
\* the purchase transaction that holds the lock of wallet u / of unit s
HoldsWallet(p, u) == InTransaction(p) /\ procs[p].user = u /\ walletLock[u] = p

HoldsUnit(p, s) == InTransaction(p) /\ stocks[s].lock = p

\* C20: a wallet balance and a unit's sold flag are mutated only inside the
\* purchase transaction: every step that changes the balance of a wallet is
\* the commit of the purchase holding that wallet's lock, and every step that
\* flips a unit's sold flag is the commit of the purchase holding that unit's
\* lock; no other path (admin, top-up, deduct, catalog) writes either.
C20_MutatedOnlyInTransaction ==
    [][/\ \A u \in DOMAIN wallets :
             wallets'[u] # wallets[u] =>
                 \E p \in Procs : HoldsWallet(p, u) /\ procs'[p].outcome = "Committed"
       /\ \A s \in DOMAIN stocks \cap DOMAIN stocks' :
             stocks'[s].is_sold # stocks[s].is_sold =>
                 \E p \in Procs : HoldsUnit(p, s) /\ procs'[p].outcome = "Committed"]_vars

\* the sold flag alone: only the commit of the lock holder flips it
SoldFlagOnlyInTransaction ==
    [][\A s \in DOMAIN stocks \cap DOMAIN stocks' :
          stocks'[s].is_sold # stocks[s].is_sold =>
              \E p \in Procs : HoldsUnit(p, s) /\ procs'[p].outcome = "Committed"]_vars

\* ---------------------------------------------------------------- C21
\* the step in which a getBalance call returns
Returns(p) ==
    procs'[p].op = "getBalance" /\ procs'[p].pc = "done" /\ procs[p].pc # "done"

\* C21: getBalance never fails and returns the account's stored balance: a
\* call that finds no wallet creates one with balance 0 and returns 0, and a
\* call on an existing wallet returns that wallet's balance; after the call
\* the wallet exists.  (A call whose lookup found no wallet may return 0 even
\* when another request created and credited the wallet in between.)
C21_GetBalance ==
    [][\A p \in Procs :
          Returns(p) =>
              LET u == procs'[p].user IN
              /\ procs'[p].outcome = "ok"
              /\ u \in DOMAIN wallets'
              /\ \/ procs'[p].report = <<BalanceRead(u)>>
                 \/ procs[p].pc = "walletInsert" /\ procs'[p].report = <<0>>]_vars

\* ---------------------------------------------------------------- C22
PurchaseOutcomes ==
    {"Committed", "InsufficientStock", "InsufficientBalance", "WalletMissing", "Aborted"}

Ended(p) == procs[p].pc = "done" /\ procs[p].outcome \in PurchaseOutcomes

\* a started purchase that has not ended can take a step
CanProceed(p) ==
    ENABLED (PurchaseLockWallet(p) \/ PurchaseReserve(p) \/ PurchaseCommit(p))

\* C22: every purchase request terminates: under fair scheduling each request
\* eventually reaches a terminal outcome in {Committed, InsufficientStock,
\* InsufficientBalance, WalletMissing, Aborted}, keeps that one outcome, and
\* concurrent purchases never deadlock (whenever purchases are unfinished,
\* one of them can take a step).
C22_PurchaseTerminates ==
    /\ \A p \in Procs : (procs[p].op = "purchase") ~> Ended(p)
    /\ [][\A p \in Procs : Ended(p) => procs'[p] = procs[p]]_vars
    /\ []((\E p \in PurchaseProcs : ~Ended(p)) =>
              (\E p \in PurchaseProcs : ~Ended(p) /\ CanProceed(p)))

\* two concurrent purchases have both ended, one committed and the other
\* refused for lack of stock
C22_Witness ==
    \E p, q \in PurchaseProcs :
        /\ p # q /\ p \notin procs[q].after /\ q \notin procs[p].after
        /\ Ended(p) /\ procs[p].outcome = "Committed"
        /\ Ended(q) /\ procs[q].outcome = "InsufficientStock"

\* ---------------------------------------------------------------- C23
NoPurchaseInFlight == \A p \in PurchaseProcs : procs[p].pc = "done"

\* within each product the sold units are the oldest ones
SoldAreOldest ==
    \A s, t \in DOMAIN stocks :
        (/\ stocks[s].product_id = stocks[t].product_id
         /\ stocks[s].is_sold /\ ~stocks[t].is_sold) =>
            stocks[s].created_at <= stocks[t].created_at

\* C23: oldest stock is sold first: whenever no purchase is in flight, every
\* sold unit of a product was created no later than every unsold unit of that
\* product (all units exist from the start, so each unsold unit existed when
\* the sold one was sold).
C23_OldestSoldFirst == NoPurchaseInFlight => SoldAreOldest

\* the same when no two purchases read the same clock second
DistinctSeconds ==
    \A p, q \in PurchaseProcs : p # q => procs[p].ts # procs[q].ts

OldestSoldFirstDistinctSeconds ==
    (NoPurchaseInFlight /\ DistinctSeconds) => SoldAreOldest

\* ---------------------------------------------------------------- C24
\* the units a purchase reserved, oldest first
InReservationOrder(items) ==
    \A j, k \in DOMAIN items :
        j < k => stocks[items[j]].created_at < stocks[items[k]].created_at

\* C24: for every committed order, deliveredPayloads is exactly the sequence
\* of payloads of the stock units reserved for it, in reservation order, its
\* length equals the order's quantity, and the same sequence is returned to
\* the buyer; an order once written is not changed.
C24_DeliveredPayloads ==
    [][/\ \A p \in Procs :
             (procs[p].pc = "commit" /\ procs'[p].outcome = "Committed") =>
                 LET o == orders'[Len(orders')]
                     items == procs[p].items
                 IN
                 /\ Len(orders') = Len(orders) + 1
                 /\ o.order_id = OrderIdOf(procs[p].ts)
                 /\ o.quantity = procs[p].qty
                 /\ Len(o.items) = o.quantity
                 /\ InReservationOrder(items)
                 /\ \A j \in DOMAIN items :
                       /\ stocks'[items[j]].order_id = o.order_id
                       /\ o.items[j] = stocks[items[j]].stock_data
                 /\ procs'[p].report = o.items
       /\ \A i \in DOMAIN orders : i \in DOMAIN orders' /\ orders'[i] = orders[i]]_vars

\* an order of two units has committed
C24_Witness ==
    \E p \in PurchaseProcs, i \in DOMAIN orders :
        /\ procs[p].outcome = "Committed"
        /\ orders[i].order_id = OrderIdOf(procs[p].ts)
        /\ orders[i].quantity = 2 /\ Len(procs[p].report) = 2

\* ---------------------------------------------------------------- C25
\* a purchase holding the lock of a stock unit holds its wallet's lock and
\* has passed the balance check
StockLockAfterBalanceCheck ==
    \A s \in DOMAIN stocks :
        stocks[s].lock # 0 =>
            LET p == stocks[s].lock IN
            /\ procs[p].op = "purchase" /\ procs[p].pc = "commit"
            /\ walletLock[procs[p].user] = p
            /\ procs[p].bal >= procs[p].amt

\* the balance and the stock are both insufficient for purchase p
BothInsufficient(p) ==
    /\ procs[p].user \in DOMAIN wallets
    /\ wallets[procs[p].user] < procs[p].amt
    /\ Cardinality(Selectable(procs[p].product)) < procs[p].qty

\* C25: the balance is validated before stock: a purchase locks a stock unit
\* only while holding the wallet lock, after the balance check; a purchase
\* for which both the balance and the stock are insufficient ends
\* InsufficientBalance, and a purchase that ends InsufficientBalance has held
\* no stock-unit lock.
C25_BalanceBeforeStock ==
    /\ []StockLockAfterBalanceCheck
    /\ [][\A p \in Procs :
             (procs[p].pc = "lockWallet" /\ procs'[p].pc # "lockWallet" /\ BothInsufficient(p)) =>
                 /\ procs'[p].outcome = "InsufficientBalance"
                 /\ procs'[p].items = <<>>
                 /\ \A s \in DOMAIN stocks' : stocks'[s].lock # p]_vars

\* a purchase ended InsufficientBalance when the stock would not have
\* sufficed either
C25_Witness ==
    \E p \in PurchaseProcs :
        /\ procs[p].outcome = "InsufficientBalance"
        /\ Cardinality(Unsold(procs[p].product)) < procs[p].qty

\* ---------------------------------------------------------------- C26
\* the balance an account started with: InitBalance when its wallet existed
\* (its opening ledger row is there), else 0
OpeningBalance(u) ==
    IF \E t \in Range(transactions) :
          t.user_id = u /\ t.transaction_id \in {<<"TXN", "ms", 0 - k>> : k \in 1..Cardinality(Accounts)}
    THEN InitBalance ELSE 0

\* the signed amount of a completed call that reported success
ReportedAmount(p) ==
    IF procs[p].pc # "done" THEN 0
    ELSE IF procs[p].op \in {"adminTopup", "approve"} /\ procs[p].outcome = "ok"
         THEN procs[p].amt
    ELSE IF procs[p].op = "deduct" /\ procs[p].outcome = "ok" THEN 0 - procs[p].amt
    ELSE IF procs[p].op = "purchase" /\ procs[p].outcome = "Committed" THEN 0 - procs[p].amt
    ELSE 0

RECURSIVE SumReported(_, _)
SumReported(S, u) ==
    IF S = {} THEN 0
    ELSE LET p == CHOOSE x \in S : TRUE
         IN (IF procs[p].user = u THEN ReportedAmount(p) ELSE 0) + SumReported(S \ {p}, u)

\* C26: no lost update on a wallet: once all balance-changing operations
\* (approve, admin top-up, deduct, purchase) have completed, each balance
\* equals the initial balance plus the credits that reported success minus
\* the debits that reported success.
C26_NoLostUpdate ==
    Quiescent =>
        \A u \in DOMAIN wallets : wallets[u] = OpeningBalance(u) + SumReported(Procs, u)

\* ---------------------------------------------------------------- C27
\* the account has been credited for request r: an approve call for it wrote
\* the raised balance
CreditedFor(r) == \E p \in ApproveCalls(r) : HasCredited(p)

\* C27: credit matches final status: under any interleaving of approve,
\* reject and cancel calls on one top-up request, once all calls have
\* completed the account has been credited for the request if and only if
\* the request's status is approved.
C27_CreditIffApproved ==
    Quiescent => \A r \in DOMAIN topups : CreditedFor(r) <=> topups[r].status = "approved"

\* ---------------------------------------------------------------- C28
\* C28: admin stock deletion removes only unsold units: under any
\* interleaving of delete-stock with purchases a sold unit is never deleted,
\* so every committed order keeps exactly `quantity` stock units referencing
\* its orderId.
C28_SoldUnitsKept ==
    /\ [][\A s \in DOMAIN stocks : stocks[s].is_sold => s \in DOMAIN stocks']_vars
    /\ [](\A i \in DOMAIN orders :
             Cardinality(UnitsOfOrder(orders[i].order_id)) = orders[i].quantity)

\* ---------------------------------------------------------------- C29
\* C29: a purchase whose wallet holds at least the total and for which at
\* least `quantity` unsold, unlocked units exist (it has passed the balance
\* check and reserved its units) always ends Committed, however many other
\* purchases commit at the same clock time.
C29_SameClockCommit ==
    [][\A p \in Procs :
          (procs[p].op = "purchase" /\ procs[p].pc = "commit" /\ procs'[p].pc = "done") =>
              procs'[p].outcome = "Committed"]_vars

\* ---------------------------------------------------------------- C30
\* the balance write of an approve or admin top-up whose wallet read failed
WritesAfterFailedRead(p) ==
    /\ procs[p].op \in {"approve", "adminTopup"}
    /\ procs[p].pc = "updateBalance" /\ procs'[p].pc # "updateBalance"
    /\ "walletRead" \in procs[p].faults

\* C30: a storage failure while reading the wallet during approve or admin
\* top-up never corrupts the balance: the operation leaves the stored balance
\* unchanged or equal to the previous balance plus the credited amount, never
\* a value computed from a substituted balance of 0.
C30_FailedReadKeepsBalance ==
    [][\A p \in Procs :
          WritesAfterFailedRead(p) =>
              LET u == procs[p].user IN
              \/ wallets' = wallets
              \/ /\ u \in DOMAIN wallets'
                 /\ wallets'[u] = BalanceRead(u) + procs[p].amt]_vars

\* ---------------------------------------------------------------- C31
\* the redeem call p consumed its voucher with success and amount amt
RedeemedWithSuccess(p) ==
    procs[p].op = "redeem" /\ procs[p].pc = "done" /\ procs[p].amt > 0

\* C31: voucher redemption credits the wallet: whenever redeemAngpao has
\* consumed a voucher and reported success with amount a, the handler has,
\* by the time it responds, raised the user's balance by a and recorded a
\* top-up ledger entry; no voucher is used with success without the credit.
C31_VoucherCredited ==
    \A p \in Procs :
        RedeemedWithSuccess(p) =>
            /\ procs[p].outcome = "ok"
            /\ procs[p].user \in DOMAIN wallets
            /\ wallets[procs[p].user] >= OpeningBalance(procs[p].user) + procs[p].amt
            /\ \E t \in Range(transactions) :
                  /\ t.user_id = procs[p].user /\ t.type = "topup"
                  /\ t.amount = procs[p].amt
                  /\ t.transaction_id \in {JsTxnIdOf(ms) : ms \in 1..(NProcs + 1)}

\* C32: a voucher is redeemed at most once: once redeemAngpao has redeemed a
\* hash with success, no later call for that hash is sent to the provider:
\* it fails on the local check, whatever number of other vouchers was marked
\* used in between.
C32_RedeemedOnce ==
    [][\A p \in Procs :
          (procs[p].pc # "provider" /\ procs'[p].pc = "provider")
             => procs'[p].voucher \notin redeemed]_vars

\* the purchases that committed and whose handler has not yet invalidated
CommittedNotInvalidated ==
    {q \in Procs : procs[q].op = "purchase" /\ procs[q].outcome = "Committed"
                   /\ q \notin invalidated}

RECURSIVE SumQty(_)
SumQty(S) ==
    IF S = {} THEN 0
    ELSE LET q == CHOOSE x \in S : TRUE IN procs[q].qty + SumQty(S \ {q})

\* C33: cache invalidation takes effect after commit: once the invalidation
\* that follows a committed purchase has run, the list a product-list read
\* finds in the cache counts the units of that purchase as sold: its stock
\* count exceeds the stored one by no more than the units of purchases whose
\* invalidation has not run yet.
C33_InvalidationAfterCommit ==
    CacheHit(ProductsKey) =>
        productsCache[ProductsKey][1] <= StockCounts[1] + SumQty(CommittedNotInvalidated)

\* C34: the pending cap holds: under any interleaving of regular and angpao
\* submissions, cancels, approvals and rejections, no account has more than
\* three top-up requests pending at the same time.
C34_PendingCap == \A u \in Accounts : Cardinality(PendingOf(u)) <= PendingCap

ChangedUnits == {s \in DOMAIN stocks : stocks'[s] # stocks[s]}

\* C36: frame of a purchase: the commit of a purchase by account A of
\* `quantity` units of product P changes A's balance and exactly `quantity`
\* units, all of P, and appends one order and one ledger entry of A; the
\* other balances, the units of other products, the existing orders and
\* ledger entries and all top-up requests stay as they are.
C36_PurchaseFrame ==
    [][\A p \in Procs :
          (procs[p].pc = "commit" /\ procs'[p].outcome = "Committed") =>
             LET me == procs[p] IN
             /\ DOMAIN wallets' = DOMAIN wallets
             /\ \A a \in DOMAIN wallets : a # me.user => wallets'[a] = wallets[a]
             /\ DOMAIN stocks' = DOMAIN stocks
             /\ Cardinality(ChangedUnits) = me.qty
             /\ \A s \in ChangedUnits : stocks[s].product_id = me.product
             /\ Len(orders') = Len(orders) + 1
             /\ SubSeq(orders', 1, Len(orders)) = orders
             /\ orders'[Len(orders')].user_id = me.user
             /\ Len(transactions') = Len(transactions) + 1
             /\ SubSeq(transactions', 1, Len(transactions)) = transactions
             /\ transactions'[Len(transactions')].user_id = me.user
             /\ topups' = topups]_vars

\* a purchase of p1 has committed after an earlier order, next to a unit of
\* p2, the wallet of a2 and a top-up request
C36_Witness ==
    \E p \in PurchaseProcs :
        /\ procs[p].outcome = "Committed"
        /\ procs[p].product = "p1"
        /\ Len(orders) = 2
        /\ orders[2].order_id = OrderIdOf(procs[p].ts)
        /\ \E s \in DOMAIN stocks : stocks[s].product_id = "p2"
        /\ "a2" \in DOMAIN wallets
        /\ topups # <<>>

\* the most recent call of blockIP for an address
LastBlock(ip) ==
    {t \in timers : t.ip = ip /\ \A o \in timers : o.ip = ip => o.n <= t.n}

====
